---- MODULE Spec2Model ----
(***************************************************************************)
(* Document-conversion backend: per-engine worker pools (package workers), *)
(* the request orchestrators HandleConvert / handleGenericPDFOperation     *)
(* (package handlers), the router selectPool, the Job / JobResult model    *)
(* (package models) and the shutdown sequence of main.                     *)
(***************************************************************************)
EXTENDS Naturals, Integers, Sequences, FiniteSets, TLC

\* ------------------------------------------------------------------ bounds
\* Number of requests that arrive during a run.
MaxReqs == 2
\* runtime.NumCPU(): executors launched per engine pool.
NumCPU == 1
\* Capacity of every pool's JobQueue.
QueueCap == 100

Reqs == 1..MaxReqs

\* ------------------------------------------------------------ format tokens
\* A format token is a string, kept as the sequence of its characters.
Upper == <<"A","B","C","D","E","F","G","H","I","J","K","L","M",
           "N","O","P","Q","R","S","T","U","V","W","X","Y","Z">>
Lower == <<"a","b","c","d","e","f","g","h","i","j","k","l","m",
           "n","o","p","q","r","s","t","u","v","w","x","y","z">>

\* strings.ToLower on one character.
ToLowerChar(c) ==
    IF \E i \in 1..Len(Upper) : Upper[i] = c
    THEN Lower[CHOOSE i \in 1..Len(Upper) : Upper[i] = c]
    ELSE c

\* strings.ToLower.
ToLower(s) == [i \in 1..Len(s) |-> ToLowerChar(s[i])]

empty    == << >>
jpg      == <<"j","p","g">>
jpeg     == <<"j","p","e","g">>
png      == <<"p","n","g">>
pdf      == <<"p","d","f">>
docx     == <<"d","o","c","x">>
ppt      == <<"p","p","t">>
xlsx     == <<"x","l","s","x">>
csv      == <<"c","s","v">>
html     == <<"h","t","m","l">>
txt      == <<"t","x","t">>
md       == <<"m","d">>
markdown == <<"m","a","r","k","d","o","w","n">>
epub     == <<"e","p","u","b">>
gif      == <<"g","i","f">>
doc      == <<"d","o","c">>
JPG      == <<"J","P","G">>
PDF      == <<"P","D","F">>
Docx     == <<"D","o","c","x">>
PNG      == <<"P","N","G">>

\* Values of the request's from / to form fields that are tried.
Tokens == {empty, jpg, jpeg, png, pdf, docx, ppt, xlsx, csv, html, txt, md,
           markdown, epub, gif, doc, JPG, PDF, Docx, PNG}

\* ------------------------------------------------------------------ engines
Pools == {"LibreOffice", "Poppler", "ImageMagick", "Pandoc", "Ghostscript"}
NoPool == "nil"

\* The text / HTML fallback rule sent to Pandoc instead of LibreOffice.
PoolRulesTextViaPandoc(from, to) ==
    << [match |-> from \in {jpg, png, jpeg} /\ to = pdf,
        pool  |-> "ImageMagick"],
       [match |-> from = pdf /\ to \in {jpg, png, jpeg},
        pool  |-> "Poppler"],
       [match |-> from \in {docx, ppt, xlsx, csv, html} /\ to = pdf,
        pool  |-> "LibreOffice"],
       [match |-> from = pdf /\ to \in {docx, xlsx, ppt},
        pool  |-> "LibreOffice"],
       [match |-> from \in {md, markdown, epub} /\ to = pdf,
        pool  |-> "Pandoc"],
       [match |-> from \in {txt, html, docx, ppt, xlsx, csv} /\ to = pdf,
        pool  |-> "Pandoc"],
       [match |-> from = pdf /\ to = txt,
        pool  |-> "Poppler"] >>

\* The if-statements of selectPool in source order, each with the pool it
\* returns; from and to are already lowercased.
PoolRules(from, to) ==
    << [match |-> from \in {jpg, png, jpeg} /\ to = pdf,
        pool  |-> "ImageMagick"],
       [match |-> from = pdf /\ to \in {jpg, png, jpeg},
        pool  |-> "Poppler"],
       [match |-> from \in {docx, ppt, xlsx, csv, html} /\ to = pdf,
        pool  |-> "LibreOffice"],
       [match |-> from = pdf /\ to \in {docx, xlsx, ppt},
        pool  |-> "LibreOffice"],
       [match |-> from \in {md, markdown, epub} /\ to = pdf,
        pool  |-> "Pandoc"],
       [match |-> from \in {txt, html, docx, ppt, xlsx, csv} /\ to = pdf,
        pool  |-> "LibreOffice"],
       [match |-> from = pdf /\ to = txt,
        pool  |-> "Poppler"] >>

\* ConversionHandler.selectPool: the first rule that matches, else nil.
selectPool(from, to) ==
    LET rules == PoolRules(ToLower(from), ToLower(to))
        hits  == {i \in 1..Len(rules) : rules[i].match}
    IN  IF hits = {} THEN NoPool
        ELSE rules[CHOOSE i \in hits : \A k \in hits : i <= k].pool

\* --------------------------------------------------------------- data model
\* A file of a working directory: its base name and its extension.
File(base, ext) == [base |-> base, ext |-> ext]

\* filepath.Join(tempDir, base + "." + ext); dir is the request id that names
\* the working directory tmp/<reqID>.
Path(dir, base, ext) == [dir |-> dir, base |-> base, ext |-> ext]

\* The staged upload, tmp/<reqID>/<header.Filename>.
InputFile == File("upload", empty)

\* models.Job as built by the orchestrators (ResultChan is resultChan[id]).
Job(id, from, to) ==
    [ID |-> id, InputPath |-> Path(id, InputFile.base, InputFile.ext),
     FromFormat |-> from, ToFormat |-> to, TempDir |-> id]

\* models.JobResult.
JobResult(success, err, path) == [Success |-> success, Error |-> err, Path |-> path]

\* The nil error.
Nil == "nil"

\* What an external tool does once started: exit non-zero, exit zero having
\* written its output, or exit zero having written nothing.
ToolOutcomes == {"err", "ok", "okNoOut"}

\* exec.Command(...).CombinedOutput(): a tool whose input file is missing
\* fails; otherwise it fails exactly when the tool exits non-zero.
RunTool(fs, input, out, diag) ==
    IF File(input.base, input.ext) \notin fs \/ out = "err" THEN diag ELSE Nil

\* Files after a tool run that is to write the file produced.
Written(fs, err, out, produced) ==
    IF err = Nil /\ out = "ok" THEN fs \cup {produced} ELSE fs

\* ------------------------------------------------------------- converters
\* converters.LibreOfficeConvert: creates the soffice_user profile directory in
\* the output directory, then runs soffice, which names its output after the
\* input file.
LibreOfficeConvert(fs, input, toFormat, out) ==
    LET fs1 == fs \cup {File("soffice_user", empty)}
        err == RunTool(fs1, input, out, "LibreOffice failed")
    IN  [err |-> err, fs |-> Written(fs1, err, out, File(input.base, toFormat))]

\* converters.PandocConvert.
PandocConvert(fs, input, output, out) ==
    LET err == RunTool(fs, input, out, "Pandoc failed")
    IN  [err |-> err, fs |-> Written(fs, err, out, File(output.base, output.ext))]

\* converters.PDFToImage: pdftoppm writes <prefix>-1.<format>.
PDFToImage(fs, input, prefix, format, out) ==
    IF format \notin {jpg, jpeg, png}
    THEN [err |-> "unsupported image format", fs |-> fs]
    ELSE LET err == RunTool(fs, input, out, "pdftoppm failed")
         IN  [err |-> err, fs |-> Written(fs, err, out, File("output-1", format))]

\* converters.ImageToPDF with the single input of the ImageMagick handler.
ImageToPDF(fs, input, output, out) ==
    LET err == RunTool(fs, input, out, "ImageMagick failed")
    IN  [err |-> err, fs |-> Written(fs, err, out, File(output.base, output.ext))]

\* converters.CompressPDF.
CompressPDF(fs, input, output, out) ==
    LET err == RunTool(fs, input, out, "Ghostscript failed")
    IN  [err |-> err, fs |-> Written(fs, err, out, File(output.base, output.ext))]

\* converters.ExtractText.
ExtractText(fs, input, output, out) ==
    LET err == RunTool(fs, input, out, "pdftotext failed")
    IN  [err |-> err, fs |-> Written(fs, err, out, File(output.base, output.ext))]

\* ---------------------------------------------------------- engine handlers
\* filepath.Glob(dir/<prefix>*.<ext>): the files of the directory whose base
\* name starts with the prefix and whose extension is ext.
Glob(fs, prefixed, ext) == {f \in fs : f.ext = ext /\ f.base \in prefixed}

AnyBase == {"upload", "output", "output-1", "soffice_user"}
OutputBases == {"output", "output-1"}

\* matches[0].
First(matches) == CHOOSE f \in matches : TRUE

\* A handler run: the Results it sent on job.ResultChan, in order, and the
\* files it left in the working directory.
Ran(sends, fs) == [sends |-> sends, fs |-> fs]

\* The LibreOffice handler returning from its no-output branch before the send.
LibreOfficeHandlerDropsSend(job, fs, out) ==
    LET outputPath == Path(job.TempDir, "output", job.ToFormat)
        conv       == LibreOfficeConvert(fs, job.InputPath, job.ToFormat, out)
        matches    == Glob(conv.fs, AnyBase, job.ToFormat)
    IN  IF conv.err = Nil /\ matches = {}
        THEN Ran(<< >>, conv.fs)
        ELSE IF conv.err = Nil
             THEN Ran(<< JobResult(TRUE, Nil,
                         Path(job.TempDir, First(matches).base, First(matches).ext)) >>,
                      conv.fs)
             ELSE Ran(<< JobResult(FALSE, conv.err, outputPath) >>, conv.fs)

\* Handler of LibreOfficePool.
LibreOfficeHandler(job, fs, out) ==
    LET outputPath == Path(job.TempDir, "output", job.ToFormat)
        conv       == LibreOfficeConvert(fs, job.InputPath, job.ToFormat, out)
        matches    == Glob(conv.fs, AnyBase, job.ToFormat)
        found      == conv.err = Nil /\ matches # {}
        err        == IF conv.err = Nil /\ matches = {}
                      THEN "no output file found" ELSE conv.err
        path       == IF found
                      THEN Path(job.TempDir, First(matches).base, First(matches).ext)
                      ELSE outputPath
    IN  Ran(<< JobResult(err = Nil, err, path) >>, conv.fs)

\* Handler of PopplerPool.
PopplerHandler(job, fs, out) ==
    LET outputPath == Path(job.TempDir, "output", empty)
    IN  IF job.ToFormat = txt
        THEN LET txtPath == Path(job.TempDir, "output", txt)
                 conv    == ExtractText(fs, job.InputPath, txtPath, out)
             IN  Ran(<< JobResult(conv.err = Nil, conv.err, txtPath) >>, conv.fs)
        ELSE LET conv    == PDFToImage(fs, job.InputPath, outputPath, job.ToFormat, out)
                 matches == Glob(conv.fs, OutputBases, job.ToFormat)
                 path    == IF matches # {}
                            THEN Path(job.TempDir, First(matches).base, First(matches).ext)
                            ELSE outputPath
             IN  Ran(<< JobResult(conv.err = Nil, conv.err, path) >>, conv.fs)

\* The ImageMagick handler writing to one output path for all Jobs,
\* tmp/output.pdf, instead of a path under the Job's TempDir.
ImageMagickHandlerSharedOutput(job, fs, out) ==
    LET outputPath == Path(0, "output", pdf)
        conv       == ImageToPDF(fs, job.InputPath, outputPath, out)
    IN  Ran(<< JobResult(conv.err = Nil, conv.err, outputPath) >>, conv.fs)

\* Handler of ImageMagickPool.
ImageMagickHandler(job, fs, out) ==
    LET outputPath == Path(job.TempDir, "output", pdf)
        conv       == ImageToPDF(fs, job.InputPath, outputPath, out)
    IN  Ran(<< JobResult(conv.err = Nil, conv.err, outputPath) >>, conv.fs)

\* The Pandoc handler sending its Result in its last statement and once
\* more in a deferred function.
PandocHandlerSendsTwice(job, fs, out) ==
    LET outputPath == Path(job.TempDir, "output", pdf)
        conv       == PandocConvert(fs, job.InputPath, outputPath, out)
        last       == JobResult(conv.err = Nil, conv.err, outputPath)
    IN  Ran(<< last, last >>, conv.fs)

\* Handler of PandocPool.
PandocHandler(job, fs, out) ==
    LET outputPath == Path(job.TempDir, "output", pdf)
        conv       == PandocConvert(fs, job.InputPath, outputPath, out)
    IN  Ran(<< JobResult(conv.err = Nil, conv.err, outputPath) >>, conv.fs)

\* The Ghostscript handler returning on a tool error without a send.
GhostscriptHandlerSilentOnError(job, fs, out) ==
    LET outputPath == Path(job.TempDir, "output", pdf)
        conv       == CompressPDF(fs, job.InputPath, outputPath, out)
    IN  IF conv.err # Nil
        THEN Ran(<< >>, conv.fs)
        ELSE Ran(<< JobResult(TRUE, Nil, outputPath) >>, conv.fs)

\* Handler of GhostscriptPool.
GhostscriptHandler(job, fs, out) ==
    LET outputPath == Path(job.TempDir, "output", pdf)
        conv       == CompressPDF(fs, job.InputPath, outputPath, out)
    IN  Ran(<< JobResult(conv.err = Nil, conv.err, outputPath) >>, conv.fs)

\* p.handler(job) for pool p, as NewEngineManager wires it.
Handler(p, job, fs, out) ==
    CASE p = "LibreOffice" -> LibreOfficeHandler(job, fs, out)
      [] p = "Poppler"     -> PopplerHandler(job, fs, out)
      [] p = "ImageMagick" -> ImageMagickHandler(job, fs, out)
      [] p = "Pandoc"      -> PandocHandler(job, fs, out)
      [] p = "Ghostscript" -> GhostscriptHandler(job, fs, out)

\* ------------------------------------------------------------------- state
VARIABLES
    opc,        \* opc[r]: where the orchestrator invocation of request r stands
    op,         \* op[r]: the operation request r asks for
    work,       \* work[r]: the working directory tmp/<r> of request r
    job,        \* job[r]: << >> or the one Job built for request r
    pool,       \* pool[r]: the orchestrator's local variable pool
    resultChan, \* resultChan[r]: buffer of the Job's ResultChan
    sent,       \* sent[r]: every Result sent on resultChan[r] so far, in order
    enqueued,   \* enqueued[r]: the pools request r's Job was put into, in order
    result,     \* result[r]: << >> or the Result the orchestrator received
    resp,       \* resp[r]: the HTTP response written for request r
    queue,      \* queue[p]: buffer of pool p's JobQueue
    handling,   \* handling[p]: the Jobs inside p.handler
    hpc,        \* hpc[r]: where the handling of Job r stands
    exited,     \* exited[p]: executors of pool p that have returned
    waiter,     \* waiter[p]: where a call of pool p's Wait stands
    srv,        \* the HTTP server: "serving" or "shutdown"
    ctxDone     \* whether the context given to EngineManager.Start is cancelled

vars == <<opc, op, work, job, pool, resultChan, sent, enqueued, result, resp,
          queue, handling, hpc, exited, waiter, srv, ctxDone>>

orchVars == <<opc, op, work, job, pool, result, resp, enqueued>>
chanVars == <<resultChan, sent>>
poolVars == <<queue, handling, hpc, exited, waiter>>
mainVars == <<srv, ctxDone>>

\* Capacity of make(chan models.JobResult, 1).
ResultCap == 1

\* What http.Error or the streaming code wrote: status, the parts of the body
\* text, and how much of the artifact went out ("none", "partial", "full").
Response(status, body, artifact) ==
    [status |-> status, body |-> body, artifact |-> artifact]

NoResponse == Response(0, << >>, "none")

\* A working directory: dir is "absent" until MkdirAll made it, then
\* "present", and "removed" once deleted; files are the files in it; removes
\* are the parties that called os.RemoveAll on it, in order.
Work(d, fs, removes) == [dir |-> d, files |-> fs, removes |-> removes]

\* The state after NewEngineManager, mgr.Start(ctx) and ListenAndServe, for
\* a run in which the requests ids arrive.
InitOver(ids) ==
    /\ opc = [r \in ids |-> "new"]
    /\ op = [r \in ids |-> "none"]
    /\ work = [r \in ids |-> Work("absent", {}, << >>)]
    /\ job = [r \in ids |-> << >>]
    /\ pool = [r \in ids |-> NoPool]
    /\ resultChan = [r \in ids |-> << >>]
    /\ sent = [r \in ids |-> << >>]
    /\ enqueued = [r \in ids |-> << >>]
    /\ result = [r \in ids |-> << >>]
    /\ resp = [r \in ids |-> NoResponse]
    /\ queue = [p \in Pools |-> << >>]
    /\ handling = [p \in Pools |-> {}]
    /\ hpc = [r \in ids |-> "none"]
    /\ exited = [p \in Pools |-> 0]
    /\ waiter = [p \in Pools |-> "none"]
    /\ srv = "serving"
    /\ ctxDone = FALSE

Init == InitOver(Reqs)

\* --------------------------------------------------------------- file system
\* os.RemoveAll(tmp/<r>) called by who.
RemoveAll(w, who) ==
    Work(IF w.dir = "present" THEN "removed" ELSE w.dir, {}, Append(w.removes, who))

\* Cleanup both deferred and called: the directory is removed twice.
JobCleanupTwice(w) == RemoveAll(RemoveAll(w, "orchestrator"), "orchestrator")

\* Cleanup forgotten.
JobCleanupForgotten(w) == w

\* Job.Cleanup (the TempDir of a Job the orchestrators build is never empty).
JobCleanup(w) == RemoveAll(w, "orchestrator")

\* os.Open(path) succeeds in working directory w.
CanOpen(w, path) == w.dir = "present" /\ File(path.base, path.ext) \in w.files

\* Requests are served in the order of their ids (ids are uuids: any order
\* of arrival is a renaming of this one); none is accepted after Shutdown.
Arrives(r) ==
    /\ srv = "serving"
    /\ opc[r] = "new"
    /\ {q \in DOMAIN opc : q < r /\ opc[q] = "new"} = {}

\* The invocation for request r ends: working directory w, response given.
Return(r, w, response) ==
    /\ opc' = [opc EXCEPT ![r] = "returned"]
    /\ work' = [work EXCEPT ![r] = w]
    /\ resp' = [resp EXCEPT ![r] = response]

\* --------------------------------------------------------- HandleConvert
\* What the environment does to a request before its Job is built: nothing
\* wrong, a wrong method, a bad form, no file part, or a failing MkdirAll,
\* os.Create or io.Copy.
PreOutcomes == {"ok", "method", "form", "nofile", "mkdir", "create", "copy"}

\* The response HandleConvert gives when it stops before the Job is built,
\* or NoResponse when it goes on.
ConvertEarly(from, to, pre) ==
    CASE pre = "method" -> Response(405, <<"Method not allowed">>, "none")
      [] pre = "form"   -> Response(400, <<"File too large or invalid form">>, "none")
      [] pre = "nofile" -> Response(400, <<"Missing file">>, "none")
      [] OTHER ->
           IF from = empty \/ to = empty
           THEN Response(400, <<"Missing from/to parameters">>, "none")
           ELSE IF pre \in {"mkdir", "create", "copy"}
                THEN Response(500, <<"Internal server error">>, "none")
                ELSE NoResponse

\* The working directory HandleConvert leaves when it stops before the Job
\* is built, and the one it has staged when it goes on.
ConvertStaged(from, to, pre) ==
    IF pre \in {"method", "form", "nofile", "mkdir"} \/ from = empty \/ to = empty
    THEN Work("absent", {}, << >>)
    ELSE IF pre = "create"
         THEN Work("present", {}, << >>)
         ELSE Work("present", {InputFile}, << >>)

\* HandleConvert from its entry to the routing of the Job: the checks, the
\* staging of the input, the Job, selectPool, and Cleanup with a 400 when
\* there is no pool.
ConvertBegin(r, from, to, pre) ==
    /\ Arrives(r)
    /\ op' = [op EXCEPT ![r] = "convert"]
    /\ UNCHANGED <<result, enqueued, chanVars, poolVars, mainVars>>
    /\ LET early  == ConvertEarly(from, to, pre)
           staged == ConvertStaged(from, to, pre)
           p      == selectPool(from, to)
       IN  IF early # NoResponse
           THEN /\ Return(r, staged, early)
                /\ UNCHANGED <<job, pool>>
           ELSE /\ job' = [job EXCEPT ![r] = << Job(r, from, to) >>]
                /\ pool' = [pool EXCEPT ![r] = p]
                /\ IF p = NoPool
                   THEN Return(r, JobCleanup(staged),
                               Response(400, <<"Unsupported conversion">>, "none"))
                   ELSE /\ opc' = [opc EXCEPT ![r] = "enqueue"]
                        /\ work' = [work EXCEPT ![r] = staged]
                        /\ UNCHANGED resp

\* ------------------------------------------- handleGenericPDFOperation
GenericOps == {"compress", "extract-text"}

\* The pool and target format handleGenericPDFOperation picks for o.
GenericPool(o) == IF o = "compress" THEN "Ghostscript" ELSE "Poppler"
GenericTo(o) == IF o = "extract-text" THEN txt ELSE pdf

\* What the environment does to a generic request. MkdirAll is left out: when
\* it fails os.Create fails too, which is the outcome "create" without a
\* directory to remove.
GenericPreOutcomes == PreOutcomes \ {"mkdir"}

\* The response handleGenericPDFOperation gives when it stops at a check.
GenericEarly(pre) ==
    CASE pre = "method" -> Response(405, <<"Method not allowed">>, "none")
      [] pre = "form"   -> Response(400, <<"Invalid form">>, "none")
      [] pre = "nofile" -> Response(400, <<"Missing file">>, "none")
      [] OTHER          -> NoResponse

\* The working directory after the unchecked MkdirAll, os.Create, io.Copy.
GenericStaged(pre) ==
    IF pre \in {"method", "form", "nofile", "mkdir"}
    THEN Work("absent", {}, << >>)
    ELSE IF pre = "create"
         THEN Work("present", {}, << >>)
         ELSE Work("present", {InputFile}, << >>)

\* handleGenericPDFOperation (called by HandleCompress and HandleExtractText)
\* from its entry to the choice of the pool.
GenericBegin(r, o, pre) ==
    /\ Arrives(r)
    /\ op' = [op EXCEPT ![r] = o]
    /\ UNCHANGED <<result, enqueued, chanVars, poolVars, mainVars>>
    /\ IF GenericEarly(pre) # NoResponse
       THEN /\ Return(r, GenericStaged(pre), GenericEarly(pre))
            /\ UNCHANGED <<job, pool>>
       ELSE /\ job' = [job EXCEPT ![r] = << Job(r, empty, GenericTo(o)) >>]
            /\ pool' = [pool EXCEPT ![r] = GenericPool(o)]
            /\ opc' = [opc EXCEPT ![r] = "enqueue"]
            /\ work' = [work EXCEPT ![r] = GenericStaged(pre)]
            /\ UNCHANGED resp

\* ------------------------------------------------ enqueue, wait, respond
\* A queue that grows with every send instead of blocking the sender.
EnqueueNeverBlocks(r) ==
    /\ opc[r] = "enqueue"
    /\ waiter[pool[r]] = "none"
    /\ queue' = [queue EXCEPT ![pool[r]] = Append(@, r)]
    /\ enqueued' = [enqueued EXCEPT ![r] = Append(@, pool[r])]
    /\ opc' = [opc EXCEPT ![r] = "wait"]
    /\ UNCHANGED <<op, work, job, pool, result, resp>>
    /\ UNCHANGED <<chanVars, handling, hpc, exited, waiter, mainVars>>

\* pool.JobQueue <- job on a queue that is not closed: blocks while the
\* queue is full.
Enqueue(r) ==
    /\ opc[r] = "enqueue"
    /\ waiter[pool[r]] = "none"
    /\ Len(queue[pool[r]]) < QueueCap
    /\ queue' = [queue EXCEPT ![pool[r]] = Append(@, r)]
    /\ enqueued' = [enqueued EXCEPT ![r] = Append(@, pool[r])]
    /\ opc' = [opc EXCEPT ![r] = "wait"]
    /\ UNCHANGED <<op, work, job, pool, result, resp>>
    /\ UNCHANGED <<chanVars, handling, hpc, exited, waiter, mainVars>>

\* The response to a failed Result: HandleConvert puts the Result's error in
\* the body, handleGenericPDFOperation a fixed text.
FailureResponse(o, res) ==
    IF o = "convert"
    THEN Response(500, <<"Conversion failed: ", res.Error>>, "none")
    ELSE Response(500, <<"Operation failed">>, "none")

\* The cleanup of the success path placed before the streaming.
RespondCleanupFirst(o, w, res) ==
    IF ~res.Success
    THEN [pc |-> "returned", work |-> RemoveAll(w, "orchestrator"),
          resp |-> FailureResponse(o, res)]
    ELSE IF ~CanOpen(w, res.Path)
         THEN [pc |-> "returned", work |-> RemoveAll(w, "orchestrator"),
               resp |-> Response(500, <<"Failed to open result">>, "none")]
         ELSE [pc |-> "stream", work |-> RemoveAll(w, "orchestrator"), resp |-> NoResponse]

\* What the orchestrator does with the Result it received, up to os.Open: a
\* failed Result is answered after the cleanup, and so is an artifact that
\* cannot be opened; otherwise the working directory is left as it is for
\* the streaming.
Respond(o, w, res) ==
    IF ~res.Success
    THEN [pc |-> "returned", work |-> JobCleanup(w), resp |-> FailureResponse(o, res)]
    ELSE IF ~CanOpen(w, res.Path)
         THEN [pc |-> "returned", work |-> JobCleanup(w),
               resp |-> Response(500, <<"Failed to open result">>, "none")]
         ELSE [pc |-> "stream", work |-> w, resp |-> NoResponse]

\* result := <-resultChan, then Respond.
Receive(r) ==
    /\ opc[r] = "wait"
    /\ resultChan[r] # << >>
    /\ LET res == Head(resultChan[r])
           nxt == Respond(op[r], work[r], res)
       IN  /\ resultChan' = [resultChan EXCEPT ![r] = Tail(@)]
           /\ result' = [result EXCEPT ![r] = << res >>]
           /\ opc' = [opc EXCEPT ![r] = nxt.pc]
           /\ work' = [work EXCEPT ![r] = nxt.work]
           /\ resp' = [resp EXCEPT ![r] = nxt.resp]
    /\ UNCHANGED <<op, job, pool, enqueued, sent, poolVars, mainVars>>

\* How an io.Copy to the client ends: everything written, or cut short.
CopyOutcomes == {"full", "partial"}

\* The headers and io.Copy(w, file): the artifact goes to the caller.
Stream(r, copied) ==
    /\ opc[r] = "stream"
    /\ opc' = [opc EXCEPT ![r] = "cleanup"]
    /\ resp' = [resp EXCEPT ![r] = Response(200, << >>, copied)]
    /\ UNCHANGED <<op, work, job, pool, result, enqueued>>
    /\ UNCHANGED <<chanVars, poolVars, mainVars>>

\* The final job.Cleanup() / os.RemoveAll(tempDir) and the return.
FinalCleanup(r) ==
    /\ opc[r] = "cleanup"
    /\ Return(r, JobCleanup(work[r]), resp[r])
    /\ UNCHANGED <<op, job, pool, result, enqueued>>
    /\ UNCHANGED <<chanVars, poolVars, mainVars>>

\* -------------------------------------------------------------- WorkerPool
\* Start with a loop that runs once too often.
ExecutorsOffByOne == NumCPU + 1

\* Start with a loop whose body never runs: no executor is launched.
ExecutorsNoneStarted == NumCPU - NumCPU

\* The executors WorkerPool.Start launches for a pool.
Executors == NumCPU

\* One set of executors shared by the five pools: an executor inside any
\* pool's handler is missing from every pool.
IdleSharedExecutors(p) ==
    Executors - exited[p] - Cardinality(UNION {handling[q] : q \in Pools})

\* Executors of pool p blocked in the select of their loop.
Idle(p) == Executors - exited[p] - Cardinality(handling[p])

\* A receive that hands the first Job to the executor and leaves it in the
\* queue for the next receive.
DequeueLeavesJob(p) ==
    /\ Executors - exited[p] - Cardinality(handling[p]) > 0
    /\ queue[p] # << >>
    /\ hpc[Head(queue[p])] # "running"
    /\ handling' = [handling EXCEPT ![p] = @ \cup {Head(queue[p])}]
    /\ hpc' = [hpc EXCEPT ![Head(queue[p])] = "running"]
    /\ UNCHANGED <<orchVars, chanVars, queue, exited, waiter, mainVars>>

\* A receive that hands out the Job admitted last.
DequeueNewestFirst(p) ==
    /\ Executors - exited[p] - Cardinality(handling[p]) > 0
    /\ queue[p] # << >>
    /\ LET j == queue[p][Len(queue[p])]
       IN  /\ queue' = [queue EXCEPT ![p] = SubSeq(@, 1, Len(@) - 1)]
           /\ handling' = [handling EXCEPT ![p] = @ \cup {j}]
           /\ hpc' = [hpc EXCEPT ![j] = "running"]
    /\ UNCHANGED <<orchVars, chanVars, exited, waiter, mainVars>>

\* case job, ok := <-p.JobQueue: an idle executor takes the first Job and
\* calls p.handler.
Dequeue(p) ==
    /\ Idle(p) > 0
    /\ queue[p] # << >>
    /\ LET j == Head(queue[p])
       IN  /\ queue' = [queue EXCEPT ![p] = Tail(@)]
           /\ handling' = [handling EXCEPT ![p] = @ \cup {j}]
           /\ hpc' = [hpc EXCEPT ![j] = "running"]
    /\ UNCHANGED <<orchVars, chanVars, exited, waiter, mainVars>>

\* An executor that ends with the handler whose Result is a failure.
HandleFailureEndsExecutor(p, j, out) ==
    /\ j \in handling[p]
    /\ hpc[j] = "running"
    /\ LET h == Handler(p, job[j][1], work[j].files, out)
       IN  /\ Len(resultChan[j]) + Len(h.sends) <= ResultCap
           /\ work' = [work EXCEPT ![j].files = h.fs]
           /\ resultChan' = [resultChan EXCEPT ![j] = @ \o h.sends]
           /\ sent' = [sent EXCEPT ![j] = @ \o h.sends]
           /\ exited' = [exited EXCEPT ![p] =
                            IF \E i \in 1..Len(h.sends) : ~h.sends[i].Success
                            THEN @ + 1 ELSE @]
    /\ handling' = [handling EXCEPT ![p] = @ \ {j}]
    /\ hpc' = [hpc EXCEPT ![j] = "done"]
    /\ UNCHANGED <<opc, op, job, pool, result, resp, enqueued>>
    /\ UNCHANGED <<queue, waiter, mainVars>>

\* p.handler(job) runs the external tool, sends on job.ResultChan (a send
\* blocks while the channel is full) and returns; the executor goes back to
\* its select.
Handle(p, j, out) ==
    /\ j \in handling[p]
    /\ hpc[j] = "running"
    /\ LET h == Handler(p, job[j][1], work[j].files, out)
       IN  /\ Len(resultChan[j]) + Len(h.sends) <= ResultCap
           /\ work' = [work EXCEPT ![j].files = h.fs]
           /\ resultChan' = [resultChan EXCEPT ![j] = @ \o h.sends]
           /\ sent' = [sent EXCEPT ![j] = @ \o h.sends]
    /\ handling' = [handling EXCEPT ![p] = @ \ {j}]
    /\ hpc' = [hpc EXCEPT ![j] = "done"]
    /\ UNCHANGED <<opc, op, job, pool, result, resp, enqueued>>
    /\ UNCHANGED <<queue, exited, waiter, mainVars>>

\* Only the first pool started under the context that is cancelled.
WorkerExitFirstPoolOnly(p) ==
    /\ ctxDone
    /\ p = "LibreOffice"
    /\ Executors - exited[p] - Cardinality(handling[p]) > 0
    /\ exited' = [exited EXCEPT ![p] = @ + 1]
    /\ UNCHANGED <<orchVars, chanVars, queue, handling, hpc, waiter, mainVars>>

\* case <-ctx.Done(): an idle executor returns.
WorkerExit(p) ==
    /\ ctxDone
    /\ Idle(p) > 0
    /\ exited' = [exited EXCEPT ![p] = @ + 1]
    /\ UNCHANGED <<orchVars, chanVars, queue, handling, hpc, waiter, mainVars>>

\* An executor that takes the closing of the queue as its end although Jobs
\* are still buffered.
ClosedExitIgnoresBuffer(p) ==
    /\ waiter[p] # "none"
    /\ Executors - exited[p] - Cardinality(handling[p]) > 0
    /\ exited' = [exited EXCEPT ![p] = @ + 1]
    /\ UNCHANGED <<orchVars, chanVars, queue, handling, hpc, waiter, mainVars>>

\* case job, ok := <-p.JobQueue with !ok: the queue is closed and empty, an
\* idle executor returns.
ClosedExit(p) ==
    /\ waiter[p] # "none"
    /\ queue[p] = << >>
    /\ Idle(p) > 0
    /\ exited' = [exited EXCEPT ![p] = @ + 1]
    /\ UNCHANGED <<orchVars, chanVars, queue, handling, hpc, waiter, mainVars>>

\* WorkerPool.Wait, its first statement: close(p.JobQueue).
WaitClose(p) ==
    /\ waiter[p] = "none"
    /\ waiter' = [waiter EXCEPT ![p] = "waiting"]
    /\ UNCHANGED <<orchVars, chanVars, queue, handling, hpc, exited, mainVars>>

\* WorkerPool.Wait, its second statement: p.wg.Wait() returns when every
\* executor has run its deferred wg.Done.
WaitReturn(p) ==
    /\ waiter[p] = "waiting"
    /\ exited[p] = Executors
    /\ waiter' = [waiter EXCEPT ![p] = "returned"]
    /\ UNCHANGED <<orchVars, chanVars, queue, handling, hpc, exited, mainVars>>

\* pool.JobQueue <- job on a closed queue: the send panics, net/http recovers
\* the panic of the request's goroutine and the invocation ends there.
EnqueueClosed(r) ==
    /\ opc[r] = "enqueue"
    /\ waiter[pool[r]] # "none"
    /\ opc' = [opc EXCEPT ![r] = "panicked"]
    /\ UNCHANGED <<op, work, job, pool, result, resp, enqueued>>
    /\ UNCHANGED <<chanVars, poolVars, mainVars>>

\* -------------------------------------------------------------------- main
\* SIGINT / SIGTERM: server.Shutdown stops the server accepting requests.
Signal ==
    /\ srv = "serving"
    /\ srv' = "shutdown"
    /\ UNCHANGED <<orchVars, chanVars, poolVars, ctxDone>>

\* cancel(), by either of its two callers, not told apart: the signal
\* goroutine when server.Shutdown has returned, or main's deferred call.
Cancel ==
    /\ srv = "shutdown"
    /\ ~ctxDone
    /\ ctxDone' = TRUE
    /\ UNCHANGED <<orchVars, chanVars, poolVars, srv>>

\* The orchestrator invocations that were accepted and have not ended.
InFlight == {r \in DOMAIN opc : opc[r] \notin {"new", "returned", "panicked"}}

\* server.Shutdown(shutdownCtx) returns nil: no accepted request is left.
ShutdownDrained ==
    /\ srv = "shutdown"
    /\ InFlight = {}
    /\ srv' = "drained"
    /\ UNCHANGED <<orchVars, chanVars, poolVars, ctxDone>>

\* server.Shutdown(shutdownCtx) returns the context's error: the 10 seconds
\* are over and requests are still being served.
ShutdownTimeout ==
    /\ srv = "shutdown"
    /\ InFlight # {}
    /\ srv' = "timedout"
    /\ UNCHANGED <<orchVars, chanVars, poolVars, ctxDone>>

\* cancel() of the signal goroutine, the statement after server.Shutdown.
GoroutineCancel ==
    /\ srv \in {"drained", "timedout"}
    /\ ~ctxDone
    /\ ctxDone' = TRUE
    /\ UNCHANGED <<orchVars, chanVars, poolVars, srv>>

\* defer cancel() of main: ListenAndServe returns http.ErrServerClosed as
\* soon as Shutdown is called, main returns and its deferred call runs.
MainCancel ==
    /\ srv \in {"shutdown", "drained", "timedout"}
    /\ ~ctxDone
    /\ ctxDone' = TRUE
    /\ UNCHANGED <<orchVars, chanVars, poolVars, srv>>

\* main has returned: the process ends with all its goroutines.
ProcessExit ==
    /\ srv \in {"shutdown", "drained", "timedout"}
    /\ ctxDone
    /\ srv' = "exited"
    /\ UNCHANGED <<orchVars, chanVars, poolVars, ctxDone>>

\* The process has not ended.
Running == srv # "exited"

\* ---------------------------------------------------------- specifications
\* The (from, to) pairs requests carry in the runs of the whole system: one
\* per pool selectPool returns, and an unrouted pair.
ConvPairs == {<<jpg, pdf>>, <<pdf, png>>, <<docx, pdf>>, <<md, pdf>>,
              <<docx, png>>}

Orchestrator ==
    \/ \E r \in Reqs, ft \in ConvPairs, pre \in PreOutcomes :
          ConvertBegin(r, ft[1], ft[2], pre)
    \/ \E r \in Reqs, o \in GenericOps, pre \in GenericPreOutcomes :
          GenericBegin(r, o, pre)
    \/ \E r \in Reqs : Enqueue(r)
    \/ \E r \in Reqs : Receive(r)
    \/ \E r \in Reqs, copied \in CopyOutcomes : Stream(r, copied)
    \/ \E r \in Reqs : FinalCleanup(r)

Executor ==
    \/ \E p \in Pools : Dequeue(p)
    \/ \E p \in Pools, j \in Reqs, out \in ToolOutcomes : Handle(p, j, out)

\* The server while it serves: no shutdown signal is given.
Next == Orchestrator \/ Executor

Spec == Init /\ [][Next]_vars

\* The server with the shutdown sequence of main.
ShutdownNext == Next \/ Signal \/ Cancel \/ \E p \in Pools : WorkerExit(p)

ShutdownSpec == Init /\ [][ShutdownNext]_vars

\* The router alone: one request with any pair of tokens goes through
\* HandleConvert up to the routing of its Job.
RouterNext == \E from \in Tokens, to \in Tokens : ConvertBegin(1, from, to, "ok")

RouterSpec == Init /\ [][RouterNext]_vars

\* Requests whose Job reaches a pool, under the scheduling of the Go runtime:
\* an orchestrator whose receive can proceed is eventually run.
LiveOrchestrator ==
    \/ \E r \in Reqs, ft \in ConvPairs : ConvertBegin(r, ft[1], ft[2], "ok")
    \/ \E r \in Reqs, o \in GenericOps, pre \in {"ok", "create"} : GenericBegin(r, o, pre)
    \/ \E r \in Reqs : Enqueue(r)
    \/ \E r \in Reqs : Receive(r)
    \/ \E r \in Reqs, copied \in CopyOutcomes : Stream(r, copied)
    \/ \E r \in Reqs : FinalCleanup(r)

LiveNext == LiveOrchestrator \/ Executor

LiveSpec == Init /\ [][LiveNext]_vars /\ \A r \in Reqs : WF_vars(Receive(r))

\* ------------------------------------------------------------------ claims
\* The Jobs waiting in the queues.
Queued == {r \in Reqs : \E p \in Pools : \E i \in 1..Len(queue[p]) : queue[p][i] = r}

\* The zero value of JobResult.Path: no path.
IsNoPath(path) == path.base = "" /\ path.ext = empty

\* C1: in every reachable state at most n = NumCPU invocations of a pool's
\* handler are in progress, however many Jobs wait in its queue.
C1_ConcurrencyBound ==
    \A p \in Pools : Cardinality(handling[p]) <= NumCPU

\* C1 witness: a pool with all n executors inside the handler and Jobs waiting.
C1_Witness ==
    \E p \in Pools : Cardinality(handling[p]) = NumCPU /\ queue[p] # << >>

\* C2: a Job whose handler has run got exactly one Result on its channel, on
\* every branch of every handler; a Job never gets a second one, and none
\* before its handler ran.
C2_ExactlyOneResult ==
    \A r \in Reqs :
        /\ Len(sent[r]) <= 1
        /\ hpc[r] = "done" => Len(sent[r]) = 1
        /\ hpc[r] # "done" => sent[r] = << >>

\* C2 witness: a handler went through its no-output branch and sent once.
C2_Witness ==
    \E r \in Reqs :
        /\ hpc[r] = "done"
        /\ Len(sent[r]) = 1
        /\ sent[r][1].Error = "no output file found"

\* C3: once the handler of a Job has completed, the orchestrator waiting on
\* the Job's result channel eventually receives the Result.
C3_WaitTerminates ==
    \A r \in Reqs : (hpc[r] = "done") ~> (result[r] # << >>)

\* C3 witness: a convert request and a generic request have each received
\* the Result of a completed handler.
C3_Witness ==
    \E r \in Reqs, q \in Reqs :
        /\ op[r] = "convert" /\ hpc[r] = "done" /\ result[r] # << >>
        /\ op[q] \in GenericOps /\ hpc[q] = "done" /\ result[q] # << >>

\* C4: a returned orchestrator call whose working directory was created has
\* left no working directory behind.
C4_NoDirectoryLeft ==
    \A r \in Reqs :
        opc[r] = "returned" /\ work[r].dir # "absent" => work[r].dir = "removed"

\* C5: a returned HandleConvert call that built its Job deleted the working
\* directory exactly once, and only the orchestrator ever deletes one.
C5_DeletedOnceByOrchestrator ==
    \A r \in Reqs :
        /\ \A i \in 1..Len(work[r].removes) : work[r].removes[i] = "orchestrator"
        /\ Len(work[r].removes) <= 1
        /\ op[r] = "convert" /\ job[r] # << >> /\ opc[r] = "returned"
              => Len(work[r].removes) = 1 /\ work[r].dir = "removed"

\* C5 witness: HandleConvert returned on each of its four exit paths after
\* the Job was built; here the path of the artifact that cannot be opened.
C5_Witness ==
    \E r \in Reqs :
        /\ op[r] = "convert" /\ opc[r] = "returned"
        /\ resp[r].body = <<"Failed to open result">>
        /\ work[r].removes = <<"orchestrator">>

RoutingTable(from, to) ==
    CASE from \in {jpg, jpeg, png} /\ to = pdf -> "ImageMagick"
      [] from = pdf /\ to \in {jpg, jpeg, png} -> "Poppler"
      [] from \in {docx, ppt, xlsx, csv, html, txt} /\ to = pdf -> "LibreOffice"
      [] from = pdf /\ to \in {docx, xlsx, ppt} -> "LibreOffice"
      [] from \in {md, markdown, epub} /\ to = pdf -> "Pandoc"
      [] from = pdf /\ to = txt -> "Poppler"
      [] OTHER -> NoPool

\* C7: for lowercase tokens selectPool returns the pool of the routing table's
\* row, nil for a pair outside the table, and the rules that match a pair all
\* name one pool, so that their order does not matter.
C7_RoutingTable ==
    \A r \in Reqs :
        op[r] = "convert" /\ job[r] # << >> =>
            LET from  == job[r][1].FromFormat
                to    == job[r][1].ToFormat
                rules == PoolRules(ToLower(from), ToLower(to))
            IN  /\ from = ToLower(from) /\ to = ToLower(to)
                      => pool[r] = RoutingTable(from, to)
                /\ Cardinality({rules[i].pool : i \in {k \in 1..Len(rules) : rules[k].match}}) <= 1
                /\ \A i \in 1..Len(rules) : rules[i].match => pool[r] = rules[i].pool

\* C7 witness: html -> pdf, which two rules match, was routed to LibreOffice.
C7_Witness ==
    /\ job[1] # << >>
    /\ job[1][1].FromFormat = html
    /\ job[1][1].ToFormat = pdf
    /\ pool[1] = "LibreOffice"

\* C8: a request for which the router returned no pool never has a Job in any
\* queue, has its working directory removed, and is answered with status 400.
C8_UnsupportedIsClientError ==
    \A r \in Reqs :
        op[r] = "convert" /\ job[r] # << >> /\ pool[r] = NoPool =>
            /\ enqueued[r] = << >>
            /\ r \notin Queued
            /\ hpc[r] = "none"
            /\ opc[r] = "returned"
            /\ resp[r].status = 400
            /\ work[r].dir = "removed"

\* C8 witness: an unrouted request was answered 400 with its directory removed.
C8_Witness ==
    \E r \in Reqs :
        /\ job[r] # << >> /\ pool[r] = NoPool
        /\ resp[r].status = 400
        /\ work[r].dir = "removed"

\* C9: a failed Result is answered with status 500 and a body that carries the
\* Result's diagnostic text; nothing is streamed and the Job is enqueued once.
C9_FailureCarriesDiagnostic ==
    \A r \in Reqs :
        result[r] # << >> /\ ~result[r][1].Success =>
            /\ resp[r].status = 500
            /\ \E i \in 1..Len(resp[r].body) : resp[r].body[i] = result[r][1].Error
            /\ resp[r].artifact = "none"
            /\ Len(enqueued[r]) = 1

\* C10: in every Result sent, the error is present exactly when Success is
\* false and the output path exactly when Success is true.
C10_ResultFields ==
    \A r \in Reqs : \A i \in 1..Len(sent[r]) :
        /\ sent[r][i].Error # Nil <=> ~sent[r][i].Success
        /\ ~IsNoPath(sent[r][i].Path) <=> sent[r][i].Success

\* The Jobs whose handler finds its output by a search of the working
\* directory: those of LibreOfficePool and the image Jobs of PopplerPool.
SearchingJob(r) ==
    /\ job[r] # << >>
    /\ \/ pool[r] = "LibreOffice"
       \/ pool[r] = "Poppler" /\ job[r][1].ToFormat # txt

\* C11: a handler that searches the working directory for its output sends a
\* success Result only with a path the search found, a file of the expected
\* format that is in the working directory; when the tool reports success and
\* the search finds nothing the Result is a failure.
C11_NoOutputIsFailure ==
    \A r \in Reqs : \A i \in 1..Len(sent[r]) :
        SearchingJob(r) /\ sent[r][i].Success =>
            /\ sent[r][i].Path.ext = job[r][1].ToFormat
            /\ work[r].removes = << >>
                  => File(sent[r][i].Path.base, sent[r][i].Path.ext) \in work[r].files

\* ------------------------------------------------------------- shutdown
\* Requests of the runs that stop the pools: image-to-PDF conversions and
\* compressions, staged without error.
ShutdownOrchestrator ==
    \/ \E r \in Reqs : ConvertBegin(r, jpg, pdf, "ok")
    \/ \E r \in Reqs : GenericBegin(r, "compress", "ok")
    \/ \E r \in Reqs : Enqueue(r)
    \/ \E r \in Reqs : Receive(r)
    \/ \E r \in Reqs, copied \in CopyOutcomes : Stream(r, copied)
    \/ \E r \in Reqs : FinalCleanup(r)

\* The server with the shutdown sequence of main.
ShutdownLiveNext ==
    \/ ShutdownOrchestrator
    \/ Executor
    \/ Signal
    \/ Cancel
    \/ \E p \in Pools : WorkerExit(p)

\* Scheduling: a handler that is running returns (the external tools
\* terminate), and an executor whose select can take ctx.Done() does so once
\* the Jobs of the run are used up (select picks among its ready cases at
\* random).
ShutdownLiveSpec ==
    /\ Init
    /\ [][ShutdownLiveNext]_vars
    /\ \A p \in Pools :
          /\ WF_vars(WorkerExit(p))
          /\ WF_vars(\E j \in Reqs, out \in ToolOutcomes : Handle(p, j, out))

WaitNext ==
    \/ ShutdownOrchestrator
    \/ Executor
    \/ \E r \in Reqs : EnqueueClosed(r)
    \/ \E p \in Pools : (\A q \in Pools : waiter[q] = "none") /\ WaitClose(p)
    \/ \E p \in Pools : ClosedExit(p)
    \/ \E p \in Pools : WaitReturn(p)

WaitSpec == Init /\ [][WaitNext]_vars

\* C13: Wait returns only when all n executors of the pool have exited; with
\* no shutdown signal given an executor exits only from a closed and empty
\* queue, and when all have exited every Job that was put into the queue has
\* been handled.
C13_WaitDrains ==
    \A p \in Pools :
        /\ waiter[p] = "returned" => exited[p] = Executors
        /\ ~ctxDone /\ exited[p] > 0 => waiter[p] # "none" /\ queue[p] = << >>
        /\ ~ctxDone /\ exited[p] = Executors =>
              \A r \in Reqs : enqueued[r] = <<p>> => hpc[r] = "done"

\* C13 witness: Wait has returned on a pool that handled every Job put into
\* its queue, two of them.
C13_Witness ==
    \E p \in Pools :
        /\ waiter[p] = "returned"
        /\ \A r \in Reqs : enqueued[r] = <<p>> /\ hpc[r] = "done"

\* ----------------------------------------------------------------- burst
\* A burst large enough to fill one queue: a Job for every executor of the
\* pool, a full queue, and one request more.
BurstReqs == QueueCap + NumCPU + 1
BurstIds == 1..BurstReqs

\* The client sends its next request when each earlier one has got its Job
\* into the queue or stands blocked on the full queue.
BurstPaced(r) ==
    \A q \in BurstIds :
        q < r /\ opc[q] = "enqueue" => Len(queue[pool[q]]) = QueueCap

\* The tool is slow against the burst: a handler that runs ends only when
\* the queue behind it has filled up.
SlowTool(p) == Len(queue[p]) = QueueCap

\* A burst of image-to-PDF conversions whose tool fails, all for the
\* ImageMagick pool.
BurstNext ==
    \/ \E r \in BurstIds : BurstPaced(r) /\ ConvertBegin(r, jpg, pdf, "ok")
    \/ \E r \in BurstIds : Enqueue(r)
    \/ \E r \in BurstIds : Receive(r)
    \/ \E p \in Pools : Dequeue(p)
    \/ \E p \in Pools, j \in BurstIds : SlowTool(p) /\ Handle(p, j, "err")

BurstSpec == InitOver(BurstIds) /\ [][BurstNext]_vars

\* Job r is in pool p's queue exactly once.
InQueueOnce(p, r) ==
    Cardinality({i \in 1..Len(queue[p]) : queue[p][i] = r}) = 1

\* What holds of the queues in every state: never more than 100 Jobs; an
\* orchestrator at its enqueue has neither answered nor lost its Job; a Job
\* that was enqueued is in the queue or was taken by an executor.
C14_QueueState ==
    /\ QueueCap = 100
    /\ \A p \in Pools : Len(queue[p]) <= QueueCap
    /\ \A r \in DOMAIN opc :
          /\ opc[r] = "enqueue" =>
                resp[r] = NoResponse /\ enqueued[r] = << >> /\ job[r] # << >>
          /\ enqueued[r] # << >> =>
                \/ hpc[r] = "none" /\ InQueueOnce(pool[r], r)
                \/ hpc[r] # "none" /\ ~\E i \in 1..Len(queue[pool[r]]) : queue[pool[r]][i] = r

\* What holds of every step: an orchestrator leaves its enqueue only by
\* appending its Job to a queue that had room.
C14_EnqueueStep ==
    \A r \in DOMAIN opc :
        opc[r] = "enqueue" /\ opc'[r] # "enqueue" =>
            /\ Len(queue[pool[r]]) < QueueCap
            /\ opc'[r] = "wait"
            /\ queue'[pool[r]] = Append(queue[pool[r]], r)

\* C14: a queue never holds more than its 100 Jobs whatever the number of
\* executors, and an enqueue on a full queue blocks the orchestrator until an
\* executor has dequeued: it neither fails nor drops the Job.
C14_BoundedBlockingQueue == []C14_QueueState /\ [][C14_EnqueueStep]_vars

\* C14 witness: an orchestrator stands at its enqueue before a full queue
\* while every executor of the pool is inside the handler.
C14_Witness ==
    \E r \in DOMAIN opc :
        /\ opc[r] = "enqueue"
        /\ Len(queue[pool[r]]) = QueueCap
        /\ Cardinality(handling[pool[r]]) = Executors

\* C15: the output path of every Result lies in the working directory of its
\* own Job, as does the Job's input, and no two Jobs have the same working
\* directory.
C15_OutputInOwnDirectory ==
    \A r \in Reqs :
        job[r] # << >> =>
            /\ job[r][1].InputPath.dir = job[r][1].TempDir
            /\ \A i \in 1..Len(sent[r]) : sent[r][i].Path.dir = job[r][1].TempDir
            /\ \A q \in Reqs \ {r} :
                  job[q] # << >> => job[q][1].TempDir # job[r][1].TempDir

\* C15 witness: two Jobs with the same formats in the same pool, one handled
\* and one being handled or waiting, both working directories still there,
\* and the Result sent has a path in its own directory.
C15_Witness ==
    \E r \in Reqs, q \in Reqs :
        /\ r # q /\ job[r] # << >> /\ job[q] # << >>
        /\ job[r][1].FromFormat = job[q][1].FromFormat
        /\ job[r][1].ToFormat = job[q][1].ToFormat
        /\ pool[r] = pool[q]
        /\ Len(sent[r]) = 1 /\ sent[r][1].Success /\ sent[r][1].Path.dir = r
        /\ enqueued[q] # << >> /\ hpc[q] # "done"
        /\ work[r].dir = "present" /\ work[q].dir = "present"

\* C16: once the shutdown signal is given no executor starts the handling
\* of a Job: no Job goes from waiting to running in a step taken with the
\* context cancelled.
C16_NoDequeueAfterSignal ==
    [][ctxDone => \A r \in Reqs : hpc'[r] = "running" => hpc[r] = "running"]_vars

\* The places of the queues that hold Job r.
QueuePlaces(r) ==
    UNION {{<<p, i>> : i \in {k \in 1..Len(queue[p]) : queue[p][k] = r}} : p \in Pools}

\* The pools in whose handler Job r is.
HandlingPools(r) == {p \in Pools : r \in handling[p]}

OtherReq == BurstReqs + 1
StuckIds == 1..OtherReq

\* The pool whose external tool hangs: a handler of it that has started
\* never returns.
StuckPool == "ImageMagick"

StuckNext ==
    \/ \E r \in BurstIds : BurstPaced(r) /\ ConvertBegin(r, jpg, pdf, "ok")
    \/ GenericBegin(OtherReq, "compress", "ok")
    \/ \E r \in StuckIds : Enqueue(r)
    \/ \E r \in StuckIds : Receive(r)
    \/ \E r \in StuckIds, copied \in CopyOutcomes : Stream(r, copied)
    \/ \E r \in StuckIds : FinalCleanup(r)
    \/ \E p \in Pools : Dequeue(p)
    \/ \E p \in Pools \ {StuckPool}, j \in StuckIds, out \in ToolOutcomes :
          Handle(p, j, out)

\* Scheduling: the executors of the pools that are not stuck are run, their
\* tools terminate, and an orchestrator whose receive can proceed is run.
StuckSpec ==
    /\ InitOver(StuckIds)
    /\ [][StuckNext]_vars
    /\ \A p \in Pools \ {StuckPool} :
          /\ WF_vars(Dequeue(p))
          /\ WF_vars(\E j \in StuckIds, out \in ToolOutcomes : Handle(p, j, out))
    /\ WF_vars(\E r \in StuckIds : Receive(r))

\* C18: a Job put into the queue of a pool is handled and its Result reaches
\* the orchestrator, in every run, those included in which all executors of
\* another pool stay inside a handler that never returns behind a full queue.
C18_PoolsIndependent ==
    (enqueued[OtherReq] # << >>)
        ~> (hpc[OtherReq] = "done" /\ result[OtherReq] # << >>)

\* C18 witness: the Result of the compression was delivered while the stuck
\* pool had all its executors inside the handler, a full queue and a blocked
\* sender.
C18_Witness ==
    /\ Cardinality(handling[StuckPool]) = Executors
    /\ Len(queue[StuckPool]) = QueueCap
    /\ \E r \in BurstIds : opc[r] = "enqueue"
    /\ enqueued[OtherReq] = <<"Ghostscript">>
    /\ result[OtherReq] # << >>

\* What holds of every step: a Job that starts being handled was the first
\* of its pool's queue, and a queue changes only by losing its first Job or
\* by getting a Job at its end.
C19_FifoStep ==
    /\ \A r \in Reqs :
          hpc[r] = "none" /\ hpc'[r] = "running" =>
              /\ queue[pool[r]] # << >>
              /\ Head(queue[pool[r]]) = r
              /\ queue'[pool[r]] = Tail(queue[pool[r]])
    /\ \A p \in Pools :
          queue'[p] # queue[p] =>
              \/ queue[p] # << >> /\ queue'[p] = Tail(queue[p])
              \/ \E r \in Reqs : queue'[p] = Append(queue[p], r)

\* C19: within a pool Jobs start being handled in the order in which their
\* enqueues were admitted to the queue.
C19_FifoAdmission == [][C19_FifoStep]_vars

\* C19 witness: the Job admitted first is inside the handler while the Job
\* admitted after it still waits in the same queue.
C19_Witness ==
    \E p \in Pools : \E r \in handling[p] :
        /\ queue[p] # << >>
        /\ opc[r] = "wait" /\ opc[Head(queue[p])] = "wait"
        /\ sent[Head(queue[p])] = << >>

\* ------------------------------------------------------- failing Jobs
\* Requests whose Job reaches a pool, under the scheduling of the Go runtime
\* and with tools that terminate: orchestrators and executors that can take
\* a step are run.
FairPoolSpec ==
    /\ Init
    /\ [][LiveNext]_vars
    /\ \A r \in Reqs : WF_vars(Enqueue(r)) /\ WF_vars(Receive(r))
    /\ \A p \in Pools :
          /\ WF_vars(Dequeue(p))
          /\ WF_vars(\E j \in Reqs, out \in ToolOutcomes : Handle(p, j, out))

\* The handler of Job r has sent a failure Result.
Failed(r) == hpc[r] = "done" /\ Len(sent[r]) = 1 /\ ~sent[r][1].Success

\* C20: the failure of a Job stays with that Job: when its handler has sent
\* the failure Result the executor is out of the handler and back at its
\* loop, no executor of any pool has exited, and a Job that comes to the same
\* pool's queue after the failure is handled.
C20_FailureIsConfined ==
    /\ [](\A r \in Reqs : Failed(r) => r \notin handling[pool[r]])
    /\ [](\A p \in Pools : exited[p] = 0 /\ Idle(p) + Cardinality(handling[p]) = Executors)
    /\ \A r \in Reqs, q \in Reqs :
          (Failed(r) /\ opc[q] = "enqueue" /\ pool[q] = pool[r]) ~> (hpc[q] = "done")

\* C20 witness: a Job failed, and a Job that came to the same pool afterwards
\* was handled with success.
C20_Witness ==
    \E r \in Reqs, q \in Reqs :
        /\ Failed(r) /\ result[r] # << >> /\ opc[r] = "returned"
        /\ pool[q] = pool[r]
        /\ hpc[q] = "done" /\ sent[q][1].Success /\ opc[q] = "wait"

\* ------------------------------------------------------- letter case
\* Requests whose from / to parameters are written in capitals or mixed case,
\* beside one in lowercase.
CasePairs == {<<pdf, png>>, <<PDF, PNG>>, <<JPG, pdf>>, <<Docx, PDF>>}

CaseNext ==
    \/ \E r \in Reqs, ft \in CasePairs : ConvertBegin(r, ft[1], ft[2], "ok")
    \/ \E r \in Reqs : Enqueue(r)
    \/ \E r \in Reqs : Receive(r)
    \/ \E r \in Reqs, copied \in CopyOutcomes : Stream(r, copied)
    \/ \E r \in Reqs : FinalCleanup(r)
    \/ Executor

CaseSpec == Init /\ [][CaseNext]_vars

\* C22: the Job of every request that was enqueued has lowercase source and
\* target format tokens, the ones the router matched on.
C22_JobTokensLowercase ==
    \A r \in Reqs :
        enqueued[r] # << >> =>
            /\ job[r][1].FromFormat = ToLower(job[r][1].FromFormat)
            /\ job[r][1].ToFormat = ToLower(job[r][1].ToFormat)

\* ------------------------------------------------- results nobody reads
\* Orchestrators that build and enqueue their Jobs and then never get to
\* their receive.
NoReaderNext ==
    \/ \E r \in Reqs, ft \in {<<md, pdf>>, <<docx, pdf>>} :
          ConvertBegin(r, ft[1], ft[2], "ok")
    \/ \E r \in Reqs : GenericBegin(r, "compress", "ok")
    \/ \E r \in Reqs : Enqueue(r)
    \/ Executor

\* Scheduling: the executors are run and the external tools terminate.
NoReaderSpec ==
    /\ Init
    /\ [][NoReaderNext]_vars
    /\ \A p \in Pools :
          /\ WF_vars(Dequeue(p))
          /\ WF_vars(\E j \in Reqs, out \in ToolOutcomes : Handle(p, j, out))

\* C23: the result channel of a Job that is being handled is empty, so the
\* handler's one send finds room in the capacity-1 buffer; the handler ends
\* with its Result in the channel and the executor out of the handler,
\* although no orchestrator reads.
C23_SendNeverBlocks ==
    /\ [](ResultCap = 1)
    /\ [](\A r \in Reqs : hpc[r] = "running" => Len(resultChan[r]) < ResultCap)
    /\ \A r \in Reqs :
          (hpc[r] = "running")
              ~> (/\ hpc[r] = "done"
                  /\ Len(sent[r]) = 1 /\ resultChan[r] = sent[r]
                  /\ r \notin handling[pool[r]])

\* C23 witness: the one executor of a pool handled two Jobs in turn and both
\* Results lie unread in their channels.
C23_Witness ==
    \E r \in Reqs, q \in Reqs :
        /\ r # q /\ pool[r] = pool[q]
        /\ hpc[r] = "done" /\ hpc[q] = "done"
        /\ Len(resultChan[r]) = 1 /\ Len(resultChan[q]) = 1
        /\ result[r] = << >> /\ result[q] = << >>
        /\ Idle(pool[r]) = Executors

\* C24: with no shutdown signal, no closed queue and tools that terminate,
\* under fair scheduling every Job admitted to a queue is dequeued and handled
\* and its Result is received by its orchestrator: none stays queued forever.
C24_AdmittedJobsServed ==
    \A r \in Reqs :
        (enqueued[r] # << >>) ~> (hpc[r] = "done" /\ r \notin Queued /\ result[r] # << >>)

\* C24 witness: two Jobs were admitted to the queue of one pool, the second
\* waited behind the first, and both Results were received and answered.
C24_Witness ==
    \E r \in Reqs, q \in Reqs :
        /\ r # q
        /\ enqueued[r] # << >> /\ enqueued[q] = enqueued[r]
        /\ result[r] # << >> /\ result[q] # << >>
        /\ opc[r] = "returned" /\ opc[q] = "returned"

\* ------------------------------------------------------ main's shutdown
\* The server with the shutdown sequence of main step by step: the signal,
\* Shutdown draining or timing out, the two calls of cancel and the end of
\* the process.
MainNext ==
    \/ Running /\ ShutdownOrchestrator
    \/ Running /\ Executor
    \/ \E p \in Pools : Running /\ WorkerExit(p)
    \/ Signal
    \/ ShutdownDrained
    \/ ShutdownTimeout
    \/ GoroutineCancel
    \/ MainCancel
    \/ ProcessExit

MainSpec == Init /\ [][MainNext]_vars

\* C25: the context of the pools is not cancelled while server.Shutdown is
\* still running, and within the shutdown window no executor of a pool has
\* exited while an orchestrator waits for the Result of a Job queued there.
C25_CancelAfterShutdown ==
    /\ ~(ctxDone /\ srv = "shutdown")
    /\ \A r \in Reqs :
          srv \in {"shutdown", "drained"} /\ opc[r] = "wait" /\ hpc[r] = "none"
              => exited[pool[r]] = 0

\* ------------------------------------------------------------ HandleMerge
\* exec.Command(...).CombinedOutput() of a tool given several input files:
\* it fails when one of them is missing or when it exits non-zero.
RunToolOnAll(fs, inputPaths, out, diag) ==
    IF (\E i \in 1..Len(inputPaths) :
            File(inputPaths[i].base, inputPaths[i].ext) \notin fs) \/ out = "err"
    THEN diag
    ELSE Nil

\* converters.MergePDFs: pdfunite over the input paths.
MergePDFs(fs, inputPaths, output, out) ==
    LET err == RunToolOnAll(fs, inputPaths, out, "pdfunite failed")
    IN  [err |-> err, fs |-> Written(fs, err, out, File(output.base, output.ext))]

\* converters.ImageToPDF with the input paths of a merge.
ImageToPDFPaths(fs, inputPaths, output, out) ==
    LET err == RunToolOnAll(fs, inputPaths, out, "ImageMagick failed")
    IN  [err |-> err, fs |-> Written(fs, err, out, File(output.base, output.ext))]

\* EngineManager.MergePDFsSync.
MergePDFsSync(fs, inputPaths, output, out) == MergePDFs(fs, inputPaths, output, out)

\* EngineManager.ImageToPDFSync.
ImageToPDFSync(fs, inputPaths, output, out) ==
    ImageToPDFPaths(fs, inputPaths, output, out)

\* The extensions of the files of the "files" form field that are tried: one
\* PDF, two PDFs, two images.
MergeUploads == {<<pdf>>, <<PDF, pdf>>, <<JPG, png>>}

\* What the environment does to a merge request: nothing wrong, a wrong
\* method, a bad form, or a failing os.Create / io.Copy while staging.
MergePreOutcomes == {"ok", "method", "form", "create"}

\* isImageMerge: some upload has the extension .jpg, .jpeg or .png.
IsImageMerge(uploads) ==
    \E i \in 1..Len(uploads) : ToLower(uploads[i]) \in {jpg, jpeg, png}

\* fmt.Sprintf("input_%d", i) for the uploads tried.
InputBase == <<"input_0", "input_1">>

\* inputPaths: tmp/<reqID>/input_<i><ext> with the extension lowercased.
InputPaths(r, uploads) ==
    [i \in 1..Len(uploads) |-> Path(r, InputBase[i], ToLower(uploads[i]))]

\* The batch operation HandleMerge calls, named after it.
MergeCall(uploads) ==
    IF IsImageMerge(uploads) THEN "ImageToPDFSync" ELSE "MergePDFsSync"

\* The uploads of the invocation that stands in the call named: of the
\* uploads tried, the two PDFs or the two images.
UploadsOf(call) ==
    IF call = "ImageToPDFSync" THEN <<JPG, png>> ELSE <<PDF, pdf>>

\* The response HandleMerge gives when it stops at a check.
MergeEarly(uploads, pre) ==
    CASE pre = "method" -> Response(405, <<"Method not allowed">>, "none")
      [] pre = "form"   -> Response(400, <<"Invalid form">>, "none")
      [] OTHER ->
           IF Len(uploads) < 2
           THEN Response(400, <<"At least 2 files required for merge">>, "none")
           ELSE NoResponse

\* The working directory after the unchecked MkdirAll and the staging loop,
\* whose os.Create and io.Copy errors are ignored.
MergeStaged(r, uploads, pre) ==
    IF MergeEarly(uploads, pre) # NoResponse
    THEN Work("absent", {}, << >>)
    ELSE IF pre = "create"
         THEN Work("present", {}, << >>)
         ELSE LET paths == InputPaths(r, uploads)
              IN  Work("present",
                       {File(paths[i].base, paths[i].ext) : i \in 1..Len(paths)},
                       << >>)

\* outputPath, tmp/<reqID>/merged.pdf.
MergedPath(r) == Path(r, "merged", pdf)

\* HandleMerge from its entry to the call of the batch operation.
MergeBegin(r, uploads, pre) ==
    /\ Arrives(r)
    /\ op' = [op EXCEPT ![r] = "merge"]
    /\ UNCHANGED <<job, pool, result, enqueued, chanVars, poolVars, mainVars>>
    /\ IF MergeEarly(uploads, pre) # NoResponse
       THEN Return(r, MergeStaged(r, uploads, pre), MergeEarly(uploads, pre))
       ELSE /\ opc' = [opc EXCEPT ![r] = MergeCall(uploads)]
            /\ work' = [work EXCEPT ![r] = MergeStaged(r, uploads, pre)]
            /\ UNCHANGED resp

\* The batch operation the invocation stands in returns.
BatchResult(r, out) ==
    IF opc[r] = "ImageToPDFSync"
    THEN ImageToPDFSync(work[r].files, InputPaths(r, UploadsOf(opc[r])),
                        MergedPath(r), out)
    ELSE MergePDFsSync(work[r].files, InputPaths(r, UploadsOf(opc[r])),
                       MergedPath(r), out)

\* A batch operation that runs its tool on an executor of the engine's pool.
MergeRunOnExecutor(r, out) ==
    /\ opc[r] \in {"MergePDFsSync", "ImageToPDFSync"}
    /\ Idle(IF opc[r] = "ImageToPDFSync" THEN "ImageMagick" ELSE "Poppler") > 0
    /\ LET c == BatchResult(r, out)
           w == Work(work[r].dir, c.fs, work[r].removes)
       IN  IF c.err # Nil
           THEN Return(r, RemoveAll(w, "orchestrator"),
                       Response(500, <<"Merge failed: ", c.err>>, "none"))
           ELSE IF ~CanOpen(w, MergedPath(r))
                THEN Return(r, RemoveAll(w, "orchestrator"),
                            Response(500, <<"Failed to open result">>, "none"))
                ELSE /\ opc' = [opc EXCEPT ![r] = "stream"]
                     /\ work' = [work EXCEPT ![r] = w]
                     /\ UNCHANGED resp
    /\ UNCHANGED <<op, job, pool, result, enqueued>>
    /\ UNCHANGED <<chanVars, poolVars, mainVars>>

\* HandleMerge from the return of the batch operation to os.Open in
\* serveAndCleanup: an error is answered after the directory is removed, and
\* so is a merged file that cannot be opened.
MergeRun(r, out) ==
    /\ opc[r] \in {"MergePDFsSync", "ImageToPDFSync"}
    /\ LET c == BatchResult(r, out)
           w == Work(work[r].dir, c.fs, work[r].removes)
       IN  IF c.err # Nil
           THEN Return(r, RemoveAll(w, "orchestrator"),
                       Response(500, <<"Merge failed: ", c.err>>, "none"))
           ELSE IF ~CanOpen(w, MergedPath(r))
                THEN Return(r, RemoveAll(w, "orchestrator"),
                            Response(500, <<"Failed to open result">>, "none"))
                ELSE /\ opc' = [opc EXCEPT ![r] = "stream"]
                     /\ work' = [work EXCEPT ![r] = w]
                     /\ UNCHANGED resp
    /\ UNCHANGED <<op, job, pool, result, enqueued>>
    /\ UNCHANGED <<chanVars, poolVars, mainVars>>

\* --------------------------------------------------- merges beside full pools
\* More merges than a pool has executors, then a burst for every pool, one
\* pool after the other.
PoolOrder == <<"Poppler", "ImageMagick", "LibreOffice", "Pandoc", "Ghostscript">>
MergeIds == 1..(NumCPU + 1)
FillIds == (NumCPU + 2)..(NumCPU + 1 + Len(PoolOrder) * BurstReqs)
FullIds == MergeIds \cup FillIds

\* The pool request r of the bursts is meant for.
FillPool(r) == PoolOrder[((r - (NumCPU + 2)) \div BurstReqs) + 1]

\* Every pool has a full queue, all its executors inside a handler and a
\* sender blocked on the queue.
AllPoolsFullAndBusy ==
    {p \in Pools : Len(queue[p]) = QueueCap /\ Idle(p) = 0
                      /\ \E q \in FillIds : opc[q] = "enqueue" /\ pool[q] = p} = Pools

\* The bursts come while every merge runs its collaborator on staged
\* inputs. The client sends its next request when each earlier one has got
\* its Job into the queue or stands blocked on the full queue, and the
\* executors have taken the Jobs they can take.
FillPaced(r) ==
    /\ {m \in MergeIds : opc[m] \in {"MergePDFsSync", "ImageToPDFSync"}
                            /\ work[m].files # {}} = MergeIds
    /\ {q \in FillIds : q < r /\ opc[q] = "enqueue"
                            /\ Len(queue[pool[q]]) # QueueCap} = {}
    /\ {p \in Pools : Idle(p) # 0 /\ queue[p] # << >>} = {}

\* The collaborator of a merge is slow against the bursts: once they have
\* begun it ends only when every pool is full and busy.
SlowBatch ==
    \/ {q \in FillIds : opc[q] # "new"} = {}
    \/ AllPoolsFullAndBusy

\* The request of the bursts that lands in the pool it is meant for.
FillBegin(r) ==
    \/ FillPool(r) = "LibreOffice" /\ ConvertBegin(r, docx, pdf, "ok")
    \/ FillPool(r) = "Poppler" /\ ConvertBegin(r, pdf, png, "ok")
    \/ FillPool(r) = "ImageMagick" /\ ConvertBegin(r, jpg, pdf, "ok")
    \/ FillPool(r) = "Pandoc" /\ ConvertBegin(r, md, pdf, "ok")
    \/ FillPool(r) = "Ghostscript" /\ GenericBegin(r, "compress", "ok")

\* The requests of the bursts that Arrives lets in: a request that is new
\* and whose predecessor is not.
Upcoming == {r \in FillIds : opc[r] = "new" /\ opc[r - 1] # "new"}

\* Every tool of the pools hangs: no handler returns.
MergeNext ==
    \/ \E r \in MergeIds, u \in MergeUploads, pre \in MergePreOutcomes :
          MergeBegin(r, u, pre)
    \/ \E r \in Upcoming : FillPaced(r) /\ FillBegin(r)
    \/ \E r \in FillIds : Enqueue(r)
    \/ \E p \in Pools : Dequeue(p)
    \/ \E r \in MergeIds, out \in ToolOutcomes : SlowBatch /\ MergeRun(r, out)
    \/ \E r \in MergeIds, copied \in CopyOutcomes : Stream(r, copied)
    \/ \E r \in MergeIds : FinalCleanup(r)

MergeSpec == InitOver(FullIds) /\ [][MergeNext]_vars

\* What holds of a merge request in every state: it has built no Job, put
\* nothing into a queue, is in no queue and in no executor's hands.
C21_NoJob ==
    \A r \in MergeIds :
        /\ job[r] = << >> /\ enqueued[r] = << >> /\ pool[r] = NoPool
        /\ hpc[r] = "none" /\ resultChan[r] = << >>
        /\ \A p \in Pools :
              r \notin handling[p] /\ \A i \in 1..Len(queue[p]) : queue[p][i] # r

\* What holds of the step in which a batch operation returns: the pools are
\* left as they are, and an error of the collaborator is the error in the
\* response, else the merged file is served.
C21_BatchStep ==
    \A r \in MergeIds :
        opc[r] \in {"MergePDFsSync", "ImageToPDFSync"} /\ opc'[r] # opc[r] =>
            /\ UNCHANGED poolVars
            /\ \E out \in ToolOutcomes :
                  LET inputs == InputPaths(r, UploadsOf(opc[r]))
                      c == IF opc[r] = "ImageToPDFSync"
                           THEN ImageToPDFPaths(work[r].files, inputs, MergedPath(r), out)
                           ELSE MergePDFs(work[r].files, inputs, MergedPath(r), out)
                  IN  IF c.err # Nil
                      THEN /\ opc'[r] = "returned"
                           /\ resp'[r] = Response(500, <<"Merge failed: ", c.err>>, "none")
                      ELSE \/ opc'[r] = "stream"
                           \/ resp'[r] = Response(500, <<"Failed to open result">>, "none")

\* What holds of a merge request inside its batch operation in every state:
\* the return of the operation waits for nothing, whatever the pools do.
C21_NeverWaits ==
    \A r \in MergeIds :
        opc[r] \in {"MergePDFsSync", "ImageToPDFSync"} =>
            ENABLED (\E out \in ToolOutcomes : MergeRun(r, out))

\* C21: a merge request builds no Job, enters no queue and is handled by no
\* executor; the return of its batch operation is never held up, in runs in
\* which every pool has a full queue and all its executors busy with tools
\* that hang; and the step in which it returns leaves the pools alone and
\* answers with the collaborator's own error.
C21_MergeBypassesPools ==
    /\ [](C21_NoJob /\ C21_NeverWaits)
    /\ [][C21_BatchStep]_vars

\* C21 witness: of more merges than a pool has executors, all started
\* before the bursts, one has failed with the collaborator's error and
\* another still runs its collaborator, while every pool has a full queue,
\* all executors busy and a blocked sender.
C21_Witness ==
    /\ AllPoolsFullAndBusy
    /\ Cardinality(MergeIds) > Executors
    /\ \E r \in MergeIds :
          /\ opc[r] = "returned"
          /\ resp[r] = Response(500, <<"Merge failed: ", "pdfunite failed">>, "none")
          /\ \E q \in MergeIds \ {r} : opc[q] = "ImageToPDFSync"

====
